---- MODULE Spec2Model ----
(***************************************************************************)
(* Memory Keeper: the record store (MemoryKeeper in src/main.py), the      *)
(* scan-and-promote pass and the merge engine                               *)
(* (MemoryKeeperImportExport._merge_databases).                             *)
(*                                                                         *)
(* A store is the content of one SQLite database file:                     *)
(*   categories : set of rows [id, name]                                   *)
(*   memories   : function  memory id -> row of the memories table         *)
(*   tags       : set of rows <<memory_id, tag>>   (memory_tags)           *)
(*   responses  : function  response id -> row of the responses table      *)
(* Primary keys are the domains of the functions (and the pair itself for  *)
(* memory_tags).  The schema declares FOREIGN KEY clauses, but no          *)
(* connection ever issues PRAGMA foreign_keys = ON, so SQLite does not     *)
(* enforce them; the model enforces exactly what SQLite enforces:          *)
(* PRIMARY KEY, UNIQUE and NOT NULL.                                       *)
(*                                                                         *)
(* uuid4 values are modelled by integers taken from a pool in increasing   *)
(* order: a generated id is different from every id generated before.      *)
(* Timestamps are integers, compared as the ISO strings are.               *)
(***************************************************************************)
EXTENDS Integers, FiniteSets, Sequences, TLC

\* ------------------------------------------------------------------ bounds
\* number of memory ids create_memory can generate in one behaviour
MaxMem == 2
\* number of response ids add_response can generate in one behaviour
MaxResp == 2
\* the clock runs from 1 to MaxNow
MaxNow == 2
\* number of operations in one behaviour
MaxSteps == 5

\* ------------------------------------------------------------ value sets
NULL == "NULL"

SeedNames == {"Milestone", "Letter", "Question", "Prediction", "Gratitude"}

\* uuid4 of a seed category of installation inst
CatId(inst, name) == inst \o "-" \o name

\* ids generated by this installation / by the installation that wrote
\* the first archive
LocalMemIds == 1 .. MaxMem
ForeignMemId == MaxMem + 1
LocalRespIds == 1 .. MaxResp
ForeignRespId == MaxResp + 1

EmptyFun == [x \in {} |-> x]

\* ------------------------------------------------------------- the store
\* the four tables right after CREATE TABLE
EmptyStore ==
    [ categories |-> {}, memories |-> EmptyFun, tags |-> {}, responses |-> EmptyFun ]

\* mutant: the seed categories are inserted at every initialisation
setup_database_always(st, inst) ==
    [st EXCEPT !.categories =
        @ \cup { [id |-> CatId(inst, n), name |-> n] : n \in SeedNames }]

\* setup_database: CREATE TABLE IF NOT EXISTS leaves existing tables alone;
\* the five seed categories, under new uuids, are inserted only when the
\* categories table is empty.
setup_database(st, inst) ==
    IF Cardinality(st.categories) = 0
    THEN [st EXCEPT !.categories =
             { [id |-> CatId(inst, n), name |-> n] : n \in SeedNames }]
    ELSE st

\* MemoryKeeper(db_path) on a new file
SetupStore(inst) == setup_database(EmptyStore, inst)

MemIdsOf(st) == DOMAIN st.memories
RespIdsOf(st) == DOMAIN st.responses

\* f with the pair k -> v added
Put(f, k, v) == [x \in (DOMAIN f) \cup {k} |-> IF x = k THEN v ELSE f[x]]
\* f without the keys in K
Drop(f, K) == [x \in (DOMAIN f) \ K |-> f[x]]

\* ---------------------------------------------------------- create_memory
\* mutant: the payload is written for every unlock type
UnlockConditions_always(unlock_type) == "{type: " \o unlock_type \o "}"

\* json.dumps({"type": unlock_type}) for a non-date type, else None
UnlockConditions(unlock_type) ==
    IF unlock_type # "date" THEN "{type: " \o unlock_type \o "}" ELSE NULL

\* mutant: the row is written with is_unlocked = 1
NewMemoryRow_unlocked(created_date, title, content, unlock_date, category, media_path, mood, importance, unlock_type) ==
    [ title             |-> title,
      content           |-> content,
      media_path        |-> media_path,
      created_date      |-> created_date,
      unlock_date       |-> unlock_date,
      unlock_type       |-> unlock_type,
      unlock_conditions |-> UnlockConditions(unlock_type),
      is_unlocked       |-> 1,
      category          |-> category,
      mood              |-> mood,
      importance        |-> importance ]

\* the row the INSERT INTO memories of create_memory writes; is_unlocked is
\* not in the column list and takes the schema default 0
NewMemoryRow(created_date, title, content, unlock_date, category, media_path, mood, importance, unlock_type) ==
    [ title             |-> title,
      content           |-> content,
      media_path        |-> media_path,
      created_date      |-> created_date,
      unlock_date       |-> unlock_date,
      unlock_type       |-> unlock_type,
      unlock_conditions |-> UnlockConditions(unlock_type),
      is_unlocked       |-> 0,
      category          |-> category,
      mood              |-> mood,
      importance        |-> importance ]

\* the NOT NULL columns of the memories table hold a value
MemoryRowAccepted(row) ==
    /\ row.title # NULL
    /\ row.unlock_type # NULL

\* the tag list can be inserted row by row under PRIMARY KEY (memory_id, tag)
TagsAccepted(tags) ==
    \A i, j \in 1 .. Len(tags) : i # j => tags[i] # tags[j]

\* mutant: every INSERT is committed as it is executed, so the memory row and
\* the tags inserted before the failing one stay in the file
create_memory_autocommit(st, memory_id, created_date, title, content, unlock_date, category, tags, media_path, mood, importance, unlock_type) ==
    LET row == NewMemoryRow(created_date, title, content, unlock_date,
                            category, media_path, mood, importance,
                            unlock_type)
    IN  IF ~MemoryRowAccepted(row)
        THEN [ store |-> st, raised |-> TRUE ]
        ELSE [ store  |-> [st EXCEPT
                             !.memories = Put(st.memories, memory_id, row),
                             !.tags = st.tags \cup
                                 { <<memory_id, tags[i]>> : i \in 1 .. Len(tags) }],
               raised |-> ~TagsAccepted(tags) ]

\* create_memory: INSERT the memory, INSERT each tag, commit.  A statement
\* that violates a constraint raises before commit(): the connection is
\* dropped with its transaction open and nothing of it reaches the file.
create_memory(st, memory_id, created_date, title, content, unlock_date, category, tags, media_path, mood, importance, unlock_type) ==
    LET row == NewMemoryRow(created_date, title, content, unlock_date,
                            category, media_path, mood, importance,
                            unlock_type)
    IN  IF MemoryRowAccepted(row) /\ TagsAccepted(tags)
        THEN [ store  |-> [st EXCEPT
                             !.memories = Put(st.memories, memory_id, row),
                             !.tags = st.tags \cup
                                 { <<memory_id, tags[i]>> : i \in 1 .. Len(tags) }],
               raised |-> FALSE ]
        ELSE [ store |-> st, raised |-> TRUE ]

\* ---------------------------------------------------------- unlock_memory
\* mutant: the call reports success whether or not a row was updated
unlock_memory_always_true(st, memory_id) ==
    IF memory_id \in MemIdsOf(st)
    THEN [ store   |-> [st EXCEPT !.memories[memory_id].is_unlocked = 1],
           success |-> TRUE ]
    ELSE [ store |-> st, success |-> TRUE ]

\* mutant: the UPDATE flips the flag instead of setting it
unlock_memory_toggle(st, memory_id) ==
    IF memory_id \in MemIdsOf(st)
    THEN [ store   |-> [st EXCEPT !.memories[memory_id].is_unlocked =
                                     1 - st.memories[memory_id].is_unlocked],
           success |-> TRUE ]
    ELSE [ store |-> st, success |-> FALSE ]

\* mutant: the UPDATE increments the flag instead of setting it
unlock_memory_increment(st, memory_id) ==
    IF memory_id \in MemIdsOf(st)
    THEN [ store   |-> [st EXCEPT !.memories[memory_id].is_unlocked =
                                     st.memories[memory_id].is_unlocked + 1],
           success |-> TRUE ]
    ELSE [ store |-> st, success |-> FALSE ]

\* mutant: the UPDATE carries AND is_unlocked = 0, so an unlocked row is not
\* matched
unlock_memory_conditional(st, memory_id) ==
    IF memory_id \in MemIdsOf(st) /\ st.memories[memory_id].is_unlocked = 0
    THEN [ store   |-> [st EXCEPT !.memories[memory_id].is_unlocked = 1],
           success |-> TRUE ]
    ELSE [ store |-> st, success |-> FALSE ]

\* UPDATE memories SET is_unlocked = 1 WHERE id = ?; success is rowcount > 0
unlock_memory(st, memory_id) ==
    IF memory_id \in MemIdsOf(st)
    THEN [ store   |-> [st EXCEPT !.memories[memory_id].is_unlocked = 1],
           success |-> TRUE ]
    ELSE [ store |-> st, success |-> FALSE ]

\* ----------------------------------------------------------- add_response
\* the responses table accepts the row: PRIMARY KEY and NOT NULL only (the
\* FOREIGN KEY clause is not enforced)
ResponseAccepted(st, response_id, memory_id, response_content) ==
    /\ response_id \notin RespIdsOf(st)
    /\ response_content # NULL

add_response(st, response_id, response_date, memory_id, response_content, mood) ==
    IF ResponseAccepted(st, response_id, memory_id, response_content)
    THEN [ store  |-> [st EXCEPT !.responses =
                         Put(st.responses, response_id,
                             [ memory_id        |-> memory_id,
                               response_content |-> response_content,
                               response_date    |-> response_date,
                               response_mood    |-> mood ])],
           raised |-> FALSE ]
    ELSE [ store |-> st, raised |-> TRUE ]

\* ------------------------------------------------------- get_memory_count
get_memory_count(st) ==
    [ total    |-> Cardinality(MemIdsOf(st)),
      locked   |-> Cardinality({ m \in MemIdsOf(st) : st.memories[m].is_unlocked = 0 }),
      unlocked |-> Cardinality({ m \in MemIdsOf(st) : st.memories[m].is_unlocked = 1 }) ]

\* ------------------------------------------------ get_unlockable_memories
\* mutant: unlock_date < now
get_unlockable_memories_strict(st, now_) ==
    { m \in MemIdsOf(st) :
        st.memories[m].is_unlocked = 0 /\ st.memories[m].unlock_date < now_ }

\* WHERE is_unlocked = 0 AND unlock_date <= now
get_unlockable_memories(st, now_) ==
    { m \in MemIdsOf(st) :
        st.memories[m].is_unlocked = 0 /\ st.memories[m].unlock_date <= now_ }

\* ---------------------------------------------- check_unlockable_memories
\* the loop of check_unlockable_memories over the list read beforehand
RECURSIVE UnlockEach(_, _, _)
UnlockEach(st, todo, unlocked_count) ==
    IF todo = {}
    THEN [ store |-> st, unlocked_count |-> unlocked_count ]
    ELSE LET m == CHOOSE x \in todo : TRUE
             r == unlock_memory(st, m)
         IN  UnlockEach(r.store, todo \ {m},
                        IF r.success THEN unlocked_count + 1 ELSE unlocked_count)

check_unlockable_memories(st, now_) ==
    UnlockEach(st, get_unlockable_memories(st, now_), 0)

\* ------------------------------------------------------- get_memory_by_id
TagsOf(st, memory_id) == { t[2] : t \in { u \in st.tags : u[1] = memory_id } }

\* Python's None as a query result
None == [none |-> TRUE]

\* the dictionary of the selected columns; the key "tags" is set only when
\* the memory has at least one tag
get_memory_by_id(st, memory_id) ==
    IF memory_id \notin MemIdsOf(st)
    THEN None
    ELSE LET r == st.memories[memory_id]
             memory == [ id |-> memory_id, title |-> r.title,
                         content |-> r.content, media_path |-> r.media_path,
                         created_date |-> r.created_date,
                         unlock_date |-> r.unlock_date, category |-> r.category,
                         mood |-> r.mood, importance |-> r.importance ]
             tags == TagsOf(st, memory_id)
         IN  IF tags # {}
             THEN [ id |-> memory.id, title |-> memory.title,
                    content |-> memory.content, media_path |-> memory.media_path,
                    created_date |-> memory.created_date,
                    unlock_date |-> memory.unlock_date,
                    category |-> memory.category, mood |-> memory.mood,
                    importance |-> memory.importance, tags |-> tags ]
             ELSE memory

ResponsesOf(st, memory_id) ==
    { r \in RespIdsOf(st) : st.responses[r].memory_id = memory_id }

\* ------------------------------------------------------------------ texts
\* The characters titles, tags and search texts are made of here: letters
\* in both cases, the separator of GROUP_CONCAT and the two LIKE wildcards.
Alphabet == {"a", "A", "b", "B", ",", "_", "%"}

\* the string made of the characters cs
RECURSIVE Str(_)
Str(cs) == IF cs = <<>> THEN "" ELSE Head(cs) \o Str(Tail(cs))

\* the characters of the string s
Spell(s) == CHOOSE cs \in [1 .. Len(s) -> Alphabet] : Str(cs) = s

\* the texts that occur as a title, a tag or a search text
Texts == {"", "a", "B", "b", "_", ",", "%", "Ab", "ab", "A,b"}

\* their characters, spelled once
Spelling == [ s \in Texts |-> Spell(s) ]

Chars(s) == IF s \in Texts THEN Spelling[s] ELSE Spell(s)

\* SQLite's LOWER() and the case folding of LIKE: ASCII letters only
LowerChar(c) == IF c = "A" THEN "a" ELSE IF c = "B" THEN "b" ELSE c

LOWER(cs) == [ i \in 1 .. Len(cs) |-> LowerChar(cs[i]) ]

\* text LIKE pattern in SQLite: % matches any run of characters, _ any one
\* character, every other character itself without regard to ASCII case
RECURSIVE LIKE(_, _)
LIKE(text, pattern) ==
    IF pattern = <<>> THEN text = <<>>
    ELSE IF Head(pattern) = "%"
    THEN LIKE(text, Tail(pattern)) \/ (text # <<>> /\ LIKE(Tail(text), pattern))
    ELSE IF text = <<>> THEN FALSE
    ELSE IF Head(pattern) = "_" THEN LIKE(Tail(text), Tail(pattern))
    ELSE /\ LowerChar(Head(pattern)) = LowerChar(Head(text))
         /\ LIKE(Tail(text), Tail(pattern))

\* str.split(","): the pieces between the commas
RECURSIVE Split(_)
Split(cs) ==
    IF \A i \in 1 .. Len(cs) : cs[i] # ","
    THEN <<cs>>
    ELSE LET i == CHOOSE k \in 1 .. Len(cs) :
                      cs[k] = "," /\ \A j \in 1 .. k - 1 : cs[j] # ","
         IN  <<SubSeq(cs, 1, i - 1)>> \o Split(SubSeq(cs, i + 1, Len(cs)))

\* the elements of the set S in some order
RECURSIVE SetToSeq(_)
SetToSeq(S) ==
    IF S = {} THEN <<>>
    ELSE LET x == CHOOSE y \in S : TRUE IN <<x>> \o SetToSeq(S \ {x})

\* GROUP_CONCAT over the tag strings in the order given
RECURSIVE GroupConcat(_)
GroupConcat(tags) ==
    IF Len(tags) = 1 THEN Chars(tags[1])
    ELSE Chars(tags[1]) \o <<",">> \o GroupConcat(Tail(tags))

\* ---------------------------------------------------- get_locked_memories
\* Python truthiness of an optional string argument
Truthy(v) == v # NULL /\ v # ""

\* the value under "tags": None when the LEFT JOIN found no tag, the string
\* itself when it is empty, else the list the string splits into
TagsColumn(st, memory_id) ==
    LET tags == TagsOf(st, memory_id)
        joined == GroupConcat(SetToSeq(tags))
        pieces == Split(joined)
    IN  IF tags = {} THEN None
        ELSE IF joined = <<>> THEN [ str |-> "" ]
        ELSE [ list |-> [ i \in 1 .. Len(pieces) |-> Str(pieces[i]) ] ]

\* the WHERE clause built for the given arguments
LockedMatch(st, m, category_id, search_text) ==
    LET search_param == <<"%">> \o Chars(search_text) \o <<"%">>
    IN  /\ st.memories[m].is_unlocked = 0
        /\ Truthy(category_id) => st.memories[m].category = category_id
        /\ Truthy(search_text) =>
              \/ LIKE(LOWER(Chars(st.memories[m].title)), search_param)
              \/ \E tag \in TagsOf(st, m) : LIKE(LOWER(Chars(tag)), search_param)

\* the value of the ORDER BY column, negated for DESC
SortKey(st, m, sort_field, sort_order) ==
    LET v == IF sort_field = "unlock_date" THEN st.memories[m].unlock_date
             ELSE IF sort_field = "created_date" THEN st.memories[m].created_date
             ELSE st.memories[m].importance
    IN  IF sort_order = "ASC" THEN v ELSE 0 - v

\* ORDER BY: the ids by their key, equal keys in some order
RECURSIVE OrderBy(_, _, _, _)
OrderBy(st, ids, sort_field, sort_order) ==
    IF ids = {} THEN <<>>
    ELSE LET m == CHOOSE x \in ids : \A y \in ids :
                      SortKey(st, x, sort_field, sort_order)
                          <= SortKey(st, y, sort_field, sort_order)
         IN  <<m>> \o OrderBy(st, ids \ {m}, sort_field, sort_order)

\* one row per memory id (GROUP BY m.id), ordered, cut at LIMIT
get_locked_memories(st, category_id, sort_field, sort_order, search_text, limit) ==
    LET ids == { m \in MemIdsOf(st) : LockedMatch(st, m, category_id, search_text) }
        ordered == OrderBy(st, ids, sort_field, sort_order)
        rows == SubSeq(ordered, 1, IF limit < Len(ordered) THEN limit ELSE Len(ordered))
    IN  [ i \in 1 .. Len(rows) |->
            [ id           |-> rows[i],
              title        |-> st.memories[rows[i]].title,
              created_date |-> st.memories[rows[i]].created_date,
              unlock_date  |-> st.memories[rows[i]].unlock_date,
              category     |-> st.memories[rows[i]].category,
              importance   |-> st.memories[rows[i]].importance,
              mood         |-> st.memories[rows[i]].mood,
              tags         |-> TagsColumn(st, rows[i]) ] ]

\* -------------------------------------------- get_filtered_locked_memories
\* the entries of the vault's sort combo; a label is "<by> (<which>)"
SortOptions ==
    { [ by |-> "Unlock Date", which |-> "Soonest" ],
      [ by |-> "Unlock Date", which |-> "Latest" ],
      [ by |-> "Creation Date", which |-> "Newest" ],
      [ by |-> "Creation Date", which |-> "Oldest" ],
      [ by |-> "Importance", which |-> "Highest" ],
      [ by |-> "Importance", which |-> "Lowest" ] }

\* Python's `needle in sort_option` for the needles the code looks for, each
\* of which is one of the two parts of a label or occurs in none
In(needle, sort_option) == needle = sort_option.by \/ needle = sort_option.which

\* "Convert sort option to parameters for the query"
SortParameters(sort_option) ==
    LET field == IF In("Creation Date", sort_option) THEN "created_date"
                 ELSE IF In("Importance", sort_option) THEN "importance"
                 ELSE "unlock_date"
        order == IF In("Creation Date", sort_option) THEN "ASC"
                 ELSE IF In("Importance", sort_option) THEN "DESC"
                 ELSE "ASC"
    IN  [ sort_field |-> field,
          sort_order |-> IF \/ In("Latest", sort_option)
                            \/ In("Oldest", sort_option)
                            \/ In("Newest", sort_option)
                         THEN "DESC" ELSE order ]

\* the limit is left at its default of 50
get_filtered_locked_memories(st, category_id, sort_option, search_text) ==
    get_locked_memories(st, category_id, SortParameters(sort_option).sort_field,
                        SortParameters(sort_option).sort_order, search_text, 50)

\* ---------------------------------------------- get_memories_with_filters
\* filters is the dictionary given: a function from the keys present to
\* their values (has_responses: "True", "False" or NULL for None)

\* the statement cannot be built or prepared: filters["unlock_after_date"]
\* is read under the test for "unlocked_after_date" (KeyError), and r.id is
\* used without the join when has_responses is present with the value None
FiltersRaise(filters) ==
    \/ "unlocked_after_date" \in DOMAIN filters
          /\ "unlock_after_date" \notin DOMAIN filters
    \/ "has_responses" \in DOMAIN filters /\ filters["has_responses"] = NULL

\* the WHERE clause built for the keys present
FiltersMatch(st, m, filters) ==
    /\ "is_unlocked" \in DOMAIN filters =>
          st.memories[m].is_unlocked = filters["is_unlocked"]
    /\ "unlocked_after_date" \in DOMAIN filters =>
          st.memories[m].unlock_date >= filters["unlock_after_date"]
    /\ "category_id" \in DOMAIN filters =>
          /\ filters["category_id"] # NULL
          /\ st.memories[m].category = filters["category_id"]
    /\ "has_responses" \in DOMAIN filters =>
          IF filters["has_responses"] = "True"
          THEN ResponsesOf(st, m) # {}
          ELSE ResponsesOf(st, m) = {}

\* the rows of FROM memories m [LEFT JOIN responses r ON m.id = r.memory_id]:
\* with the join, one row per response of a memory, or one row with r NULL
\* (r = {}) for a memory without responses; without it one row per memory
FromRows(st, filters) ==
    IF "has_responses" \in DOMAIN filters /\ filters["has_responses"] # NULL
    THEN UNION { { [ m |-> x, r |-> {y} ] : y \in ResponsesOf(st, x) }
                   : x \in MemIdsOf(st) }
         \cup { [ m |-> x, r |-> {} ] :
                    x \in { z \in MemIdsOf(st) : ResponsesOf(st, z) = {} } }
    ELSE { [ m |-> x, r |-> {} ] : x \in MemIdsOf(st) }

\* GROUP BY m.id: one result row per memory id among the rows
GroupBy(rows) == SetToSeq({ row.m : row \in rows })

\* ORDER BY m.unlock_date DESC on the result rows
RECURSIVE OrderByUnlockDateDesc(_, _)
OrderByUnlockDateDesc(st, ms) ==
    IF ms = <<>> THEN <<>>
    ELSE LET i == CHOOSE k \in 1 .. Len(ms) : \A j \in 1 .. Len(ms) :
                      st.memories[ms[k]].unlock_date >= st.memories[ms[j]].unlock_date
         IN  <<ms[i]>> \o OrderByUnlockDateDesc(st,
                 SubSeq(ms, 1, i - 1) \o SubSeq(ms, i + 1, Len(ms)))

get_memories_with_filters(st, filters) ==
    IF FiltersRaise(filters)
    THEN [ raised |-> TRUE, memories |-> <<>> ]
    ELSE LET where == { row \in FromRows(st, filters) :
                          FiltersMatch(st, row.m, filters) }
             rows == OrderByUnlockDateDesc(st, GroupBy(where))
         IN  [ raised   |-> FALSE,
               memories |-> [ i \in 1 .. Len(rows) |->
                   [ id           |-> rows[i],
                     title        |-> st.memories[rows[i]].title,
                     content      |-> st.memories[rows[i]].content,
                     media_path   |-> st.memories[rows[i]].media_path,
                     created_date |-> st.memories[rows[i]].created_date,
                     unlock_date  |-> st.memories[rows[i]].unlock_date,
                     category     |-> st.memories[rows[i]].category,
                     mood         |-> st.memories[rows[i]].mood,
                     importance   |-> st.memories[rows[i]].importance ] ] ]

\* ---------------------------------------------------------- delete_memory
\* mutant: the responses are left behind
DeleteResponses_skip(st, memory_id) == st

\* DELETE FROM responses WHERE memory_id = ?
DeleteResponses(st, memory_id) ==
    [st EXCEPT !.responses = Drop(st.responses, ResponsesOf(st, memory_id))]

\* DELETE FROM memory_tags WHERE memory_id = ?
DeleteTags(st, memory_id) ==
    [st EXCEPT !.tags = { t \in st.tags : t[1] # memory_id }]

\* DELETE FROM memories WHERE id = ?
DeleteMemoryRow(st, memory_id) ==
    [st EXCEPT !.memories = Drop(st.memories, {memory_id})]

\* mutant: success is the number of rows the three DELETEs removed
delete_memory_total_changes(st, memory_id) ==
    [ store   |-> DeleteMemoryRow(DeleteTags(DeleteResponses(st, memory_id),
                                             memory_id), memory_id),
      success |-> \/ memory_id \in MemIdsOf(st)
                  \/ TagsOf(st, memory_id) # {}
                  \/ ResponsesOf(st, memory_id) # {} ]

\* one transaction; success is the rowcount of the last DELETE
delete_memory(st, memory_id) ==
    [ store   |-> DeleteMemoryRow(DeleteTags(DeleteResponses(st, memory_id),
                                             memory_id), memory_id),
      success |-> memory_id \in MemIdsOf(st) ]

\* ------------------------------------------------------- _merge_databases
CategoryNames(st) == { c.name : c \in st.categories }
CategoryIds(st) == { c.id : c \in st.categories }

\* existing_categories = {name: id} of the current store
ExistingCategoryId(cur, name) ==
    (CHOOSE c \in cur.categories : c.name = name).id

\* category_mapping: imported category id -> id to use in the current store
CategoryMapping(cur, imp) ==
    [ cid \in CategoryIds(imp) |->
        LET c == CHOOSE x \in imp.categories : x.id = cid
        IN  IF c.name \in CategoryNames(cur)
            THEN ExistingCategoryId(cur, c.name)
            ELSE cid ]

\* INSERT OR IGNORE of the imported categories whose name is new; a row
\* whose id is already taken is ignored
MergeCategories(cur, imp) ==
    [cur EXCEPT !.categories = cur.categories \cup
        { c \in imp.categories :
            c.name \notin CategoryNames(cur) /\ c.id \notin CategoryIds(cur) }]

\* ids of the imported memories that are not in existing_memory_ids
NewMemoryIds(cur, imp) == MemIdsOf(imp) \ MemIdsOf(cur)

\* "Update category ID if needed"
MappedCategory(mapping, category) ==
    IF category \in DOMAIN mapping THEN mapping[category] ELSE category

\* mutant: INSERT OR REPLACE, an imported row overwrites the local one
MergeMemories_overwrite(cur, imp, mapping) ==
    [cur EXCEPT !.memories =
        [ m \in MemIdsOf(cur) \cup MemIdsOf(imp) |->
            IF m \notin MemIdsOf(imp)
            THEN cur.memories[m]
            ELSE [imp.memories[m] EXCEPT
                    !.category = MappedCategory(mapping, imp.memories[m].category)] ]]

\* the INSERT INTO memories of the merge: every column from the imported
\* row, the category through the mapping
MergeMemories(cur, imp, mapping) ==
    [cur EXCEPT !.memories =
        [ m \in MemIdsOf(cur) \cup NewMemoryIds(cur, imp) |->
            IF m \in MemIdsOf(cur)
            THEN cur.memories[m]
            ELSE [imp.memories[m] EXCEPT
                    !.category = MappedCategory(mapping, imp.memories[m].category)] ]]

\* rows the tag loop inserts
TagRowsToImport(ids, imp) == { t \in imp.tags : t[1] \in ids }

\* rows the response loop inserts
ResponseIdsToImport(ids, imp) ==
    { r \in RespIdsOf(imp) : imp.responses[r].memory_id \in ids }

MergeTags(st, ids, imp) ==
    [st EXCEPT !.tags = st.tags \cup TagRowsToImport(ids, imp)]

MergeResponses(st, ids, imp) ==
    [st EXCEPT !.responses =
        [ r \in RespIdsOf(st) \cup ResponseIdsToImport(ids, imp) |->
            IF r \in RespIdsOf(st) THEN st.responses[r] ELSE imp.responses[r] ]]

\* mutant: the statements executed before the failure stay in the file
Rollback_keep(before, partial) == partial

\* current_conn.rollback(): the file keeps what it held before the merge
Rollback(before, partial) == before

\* _merge_databases(current_db_path, import_db_path).  The tag and response
\* INSERTs raise IntegrityError on a primary key that is already present.
merge_databases(cur, imp) ==
    LET mapping  == CategoryMapping(cur, imp)
        ids      == NewMemoryIds(cur, imp)
        withMems == MergeMemories(MergeCategories(cur, imp), imp, mapping)
        tagsOk   == TagRowsToImport(ids, imp) \cap cur.tags = {}
        respOk   == ResponseIdsToImport(ids, imp) \cap RespIdsOf(cur) = {}
        withTags == MergeTags(withMems, ids, imp)
    IN  IF ~tagsOk
        THEN [ store |-> Rollback(cur, withMems), raised |-> TRUE,
               imported_count |-> 0 ]
        ELSE IF ~respOk
        THEN [ store |-> Rollback(cur, withTags), raised |-> TRUE,
               imported_count |-> 0 ]
        ELSE [ store |-> MergeResponses(withTags, ids, imp), raised |-> FALSE,
               imported_count |-> Cardinality(ids) ]

\* import_database(merge = True) on a valid archive: (True, ...) with the
\* merged count, or (False, "Import failed: ...") when the merge raised
import_database_merge(cur, imp) ==
    LET r == merge_databases(cur, imp)
    IN  [ store |-> r.store, success |-> ~r.raised,
          imported_count |-> r.imported_count ]

\* -------------------------------------------------------- import_database
\* A file that holds a store: all of its bytes (whole) or, after a copy
\* that stopped partway, only some of them.
File(store, whole) == [ exists |-> TRUE, whole |-> whole, content |-> store ]
NoFile == [ exists |-> FALSE, whole |-> FALSE, content |-> EmptyStore ]

\* outcomes of one shutil.copy2 call: it completes, it raises before the
\* destination is opened, or it raises after the destination was truncated
\* and partly written
Faults == {"none", "open", "write"}

\* mutant: the arguments are given in the other order
copy2_reversed(fs, src, dst, fault) ==
    IF ~fs[dst].exists \/ fault = "open"
    THEN [ fs |-> fs, raised |-> TRUE ]
    ELSE IF fault = "write"
    THEN [ fs |-> [fs EXCEPT ![src] = [fs[dst] EXCEPT !.whole = FALSE]],
           raised |-> TRUE ]
    ELSE [ fs |-> [fs EXCEPT ![src] = fs[dst]], raised |-> FALSE ]

\* shutil.copy2(src, dst) on the files fs: the source is opened first
\* (FileNotFoundError leaves the destination alone), then the destination
\* is opened for writing, which truncates it, and the bytes are copied
copy2(fs, src, dst, fault) ==
    IF ~fs[src].exists \/ fault = "open"
    THEN [ fs |-> fs, raised |-> TRUE ]
    ELSE IF fault = "write"
    THEN [ fs |-> [fs EXCEPT ![dst] = [fs[src] EXCEPT !.whole = FALSE]],
           raised |-> TRUE ]
    ELSE [ fs |-> [fs EXCEPT ![dst] = fs[src]], raised |-> FALSE ]

\* the archive chosen in the file dialog: whether it has the member
\* memorykeeper.db, and what metadata.json is: missing, not JSON, a JSON
\* list, or the JSON object export_database writes
ArchiveShapes ==
    { [ db |-> d, metadata |-> m ] :
        d \in BOOLEAN, m \in {"missing", "invalid", "list", "dict"} }

\* zipf.extractall(temp_path): the store member, if any, at import_db_path
ExtractAll(shape, store) == IF shape.db THEN File(store, TRUE) ELSE NoFile

\* the except branch after backup_path was assigned (merge = False):
\* copy the backup over the store file, whatever the backup holds
RestoreBackup(fs, fault) ==
    LET c == copy2(fs, "backup", "db", fault)
    IN  [ fs |-> c.fs, success |-> FALSE, imported_count |-> 0,
          message |-> IF c.raised
                      THEN "Import failed, also failed to restore backup"
                      ELSE "Import failed" ]

\* backup, replace, then read the count out of the metadata
ReplaceDatabase(fs, shape, faults) ==
    LET b == copy2(fs, "db", "backup", faults.backup)
        r == copy2(b.fs, "import", "db", faults.replace)
    IN  IF b.raised THEN RestoreBackup(b.fs, faults.restore)
        ELSE IF r.raised THEN RestoreBackup(r.fs, faults.restore)
        ELSE IF shape.metadata = "list" THEN RestoreBackup(r.fs, faults.restore)
        ELSE [ fs |-> r.fs, success |-> TRUE, imported_count |-> 0,
               message |-> "Successfully imported" ]

\* _merge_databases on the files: sqlite3 raises on a store file that is
\* not whole
MergeDatabase(fs) ==
    LET r == merge_databases(fs.db.content, fs.import.content)
    IN  IF ~fs.db.whole \/ r.raised
        THEN [ fs |-> fs, success |-> FALSE, imported_count |-> 0,
               message |-> "Import failed" ]
        ELSE [ fs |-> [fs EXCEPT !.db.content = r.store], success |-> TRUE,
               imported_count |-> r.imported_count,
               message |-> "Successfully imported and merged" ]

\* mutant: the members are looked for only after the import was done
import_database_late_check(fs, shape, merge, faults) ==
    LET done == IF ~fs.import.exists THEN RestoreBackup(fs, faults.restore)
                ELSE IF merge THEN MergeDatabase(fs)
                ELSE ReplaceDatabase(fs, shape, faults)
    IN  IF ~fs.import.exists
        THEN [done EXCEPT !.success = FALSE,
                          !.message = "Invalid export file: Missing database"]
        ELSE IF shape.metadata = "missing"
        THEN [done EXCEPT !.success = FALSE,
                          !.message = "Invalid export file: Missing metadata"]
        ELSE done

\* import_database(merge) once the file is chosen and confirmed; fs holds
\* the store file, its backup and the extracted store
import_database(fs, shape, merge, faults) ==
    IF ~fs.import.exists
    THEN [ fs |-> fs, success |-> FALSE, imported_count |-> 0,
           message |-> "Invalid export file: Missing database" ]
    ELSE IF shape.metadata = "missing"
    THEN [ fs |-> fs, success |-> FALSE, imported_count |-> 0,
           message |-> "Invalid export file: Missing metadata" ]
    ELSE IF shape.metadata = "invalid"
    THEN [ fs |-> fs, success |-> FALSE, imported_count |-> 0,
           message |-> "Import failed" ]
    ELSE IF merge THEN MergeDatabase(fs)
    ELSE ReplaceDatabase(fs, shape, faults)

\* ------------------------------------------------------------ the inputs
AllMemIds == 1 .. ForeignMemId

\* argument lists given to create_memory (content, media_path, mood,
\* importance and unlock_type are the same in each)
CreateInputs ==
    { [ title |-> "Birthday Letter", unlock_date |-> 1,
        category |-> CatId("loc", "Letter"), tags |-> <<"family">> ],
      [ title |-> "", unlock_date |-> MaxNow,
        category |-> NULL, tags |-> <<>> ],
      [ title |-> "Random Note", unlock_date |-> MaxNow,
        category |-> NULL, tags |-> <<"work", "work">> ] }

\* stores another installation can have written into an archive: set up
\* there (its own category ids), holding nothing or one memory created there,
\* possibly unlocked and answered
ForeignMemory(category, answered) ==
    LET s0 == SetupStore("oth")
        s1 == create_memory(s0, ForeignMemId, 1, "Random Note", "text", 1,
                            category, <<"work">>, NULL, "Happy", 3, "date").store
    IN  IF answered
        THEN add_response(unlock_memory(s1, ForeignMemId).store, ForeignRespId,
                          1, ForeignMemId, "reply", NULL).store
        ELSE s1

ForeignStores ==
    {SetupStore("oth")} \cup
    { ForeignMemory(CatId("oth", "Milestone"), a) : a \in BOOLEAN }

\* ------------------------------------------------------------- the state
VARIABLES
    local,        \* the store of this installation (memorykeeper.db)
    ext,          \* the store inside the archive offered for import
    now,          \* datetime.now()
    memGen,       \* number of memory ids generated here so far
    respGen,      \* number of response ids generated here so far
    steps,        \* number of operations performed so far
    last,         \* the last call on the store: name, id argument, outcome
    tracking,     \* whether the history below is kept (fixed per behaviour)
    everUnlocked, \* history: ids that were stored here with is_unlocked = 1
    intact,       \* memorykeeper.db holds all the bytes of the store `local`
    backup,       \* the file memorykeeper.db.backup
    scan,         \* check_unlockable_memories in progress: list read, position, count
    window,       \* the main window: how far init_ui has got, the filter combos
    unlocked_memory_list  \* the ids shown in the list of the unlocked tab

\* the files only import_database(merge = False) writes
files == <<intact, backup>>

\* the window and a scan of it, used by the specifications of the session
session == <<scan, window, unlocked_memory_list>>

vars == <<local, ext, now, memGen, respGen, steps, last, tracking, everUnlocked, files, session>>

\* ok: the call returned normally and, for a Boolean result, returned True;
\* args: the argument list of a create_memory call
NoArgs == [none |-> TRUE]

Call(op, id, ok, count) ==
    [op |-> op, id |-> id, ok |-> ok, count |-> count, args |-> NoArgs]

UnlockedIds(st) == { m \in MemIdsOf(st) : st.memories[m].is_unlocked = 1 }

Record(st) ==
    everUnlocked' = IF tracking THEN everUnlocked \cup UnlockedIds(st)
                    ELSE everUnlocked

\* no scan in progress; `read` and `written` are history: the ids the scan
\* read as eligible and those that were stored when their UPDATE ran
NoScan ==
    [ active |-> FALSE, todo |-> {}, unlocked_count |-> 0, read |-> {}, written |-> {} ]

\* the window before init_ui has built its tabs; the combos of the unlocked
\* tab start on their first entries
NewWindow ==
    [ phase |-> "init", filter_option |-> "All Unlocked", category_id |-> NULL ]

InitSession ==
    /\ scan = NoScan
    /\ window = NewWindow
    /\ unlocked_memory_list = <<>>

InitStore ==
    /\ InitSession
    /\ local = SetupStore("loc")
    /\ ext \in ForeignStores
    /\ now = 1
    /\ memGen = 0
    /\ respGen = 0
    /\ steps = 0
    /\ last = Call("init", 0, TRUE, 0)
    /\ everUnlocked = {}
    /\ intact = TRUE
    /\ backup = NoFile

Init == InitStore /\ tracking = FALSE

InitHist == InitStore /\ tracking = TRUE

\* ------------------------------------------------------------ the actions
\* one more operation, while the behaviour may still grow
Step ==
    /\ steps < MaxSteps
    /\ steps' = steps + 1

CreateMemory ==
    /\ Step
    /\ memGen < MaxMem
    /\ \E f \in CreateInputs :
          LET memory_id == memGen + 1
              r == create_memory(local, memory_id, now, f.title, "text",
                                 f.unlock_date, f.category, f.tags, NULL,
                                 "Happy", 3, "date")
          IN  /\ local' = r.store
              /\ last' = [Call("create_memory", memory_id, ~r.raised, 0)
                              EXCEPT !.args = f]
              /\ Record(r.store)
    /\ memGen' = memGen + 1
    /\ UNCHANGED <<session, files, ext, now, respGen, tracking>>

UnlockMemory ==
    \E memory_id \in AllMemIds :
        LET r == unlock_memory(local, memory_id)
        IN  /\ Step
            /\ local' = r.store
            /\ last' = Call("unlock_memory", memory_id, r.success, 0)
            /\ Record(r.store)
            /\ UNCHANGED <<session, files, ext, now, memGen, respGen, tracking>>

AddResponse ==
    /\ Step
    /\ respGen < MaxResp
    /\ \E memory_id \in AllMemIds :
          LET response_id == respGen + 1
              r == add_response(local, response_id, now, memory_id, "reply", NULL)
          IN  /\ local' = r.store
              /\ last' = Call("add_response", memory_id, ~r.raised, 0)
              /\ Record(r.store)
    /\ respGen' = respGen + 1
    /\ UNCHANGED <<session, files, ext, now, memGen, tracking>>

ScanAndPromote ==
    LET r == check_unlockable_memories(local, now)
    IN  /\ Step
        /\ local' = r.store
        /\ last' = Call("check_unlockable_memories", 0, TRUE, r.unlocked_count)
        /\ Record(r.store)
        /\ UNCHANGED <<session, files, ext, now, memGen, respGen, tracking>>

DeleteMemory ==
    \E memory_id \in AllMemIds :
        LET r == delete_memory(local, memory_id)
        IN  /\ Step
            /\ local' = r.store
            /\ last' = Call("delete_memory", memory_id, r.success, 0)
            /\ Record(r.store)
            /\ UNCHANGED <<session, files, ext, now, memGen, respGen, tracking>>

Tick ==
    /\ Step
    /\ now < MaxNow
    /\ now' = now + 1
    /\ last' = Call("tick", 0, TRUE, 0)
    /\ UNCHANGED <<session, files, local, ext, memGen, respGen, tracking, everUnlocked>>

\* export_database: the archive holds a copy of the store file
Export ==
    /\ Step
    /\ ext' = local
    /\ last' = Call("export_database", 0, TRUE, 0)
    /\ UNCHANGED <<session, files, local, now, memGen, respGen, tracking, everUnlocked>>

\* the archive comes back from another installation that had taken a copy
\* of this store, merged the earlier archive into it and exported the result
ExportMerged ==
    /\ Step
    /\ LET r == merge_databases(local, ext)
       IN  /\ ~r.raised
           /\ ext' = r.store
    /\ last' = Call("export_database", 0, TRUE, 0)
    /\ UNCHANGED <<session, files, local, now, memGen, respGen, tracking, everUnlocked>>

\* import_database(merge = True) of the archive
Merge ==
    /\ Step
    /\ LET r == import_database_merge(local, ext)
       IN  /\ local' = r.store
           /\ last' = Call("import_database", 0, r.success, r.imported_count)
           /\ Record(r.store)
    /\ UNCHANGED <<session, files, ext, now, memGen, respGen, tracking>>

Next ==
    \/ CreateMemory
    \/ UnlockMemory
    \/ AddResponse
    \/ ScanAndPromote
    \/ DeleteMemory
    \/ Tick
    \/ Export
    \/ ExportMerged
    \/ Merge

Spec == Init /\ [][Next]_vars

\* the same program, with the history of unlocked ids kept
SpecHist == InitHist /\ [][Next]_vars

TypeOK ==
    /\ now \in 1 .. MaxNow
    /\ steps \in 0 .. MaxSteps
    /\ memGen \in 0 .. MaxMem
    /\ respGen \in 0 .. MaxResp
    /\ MemIdsOf(local) \subseteq AllMemIds

\* ------------------------------------------- the record store on its own
\* A second specification: create_memory with every argument varied,
\* unlock_memory and add_response on the stored records, and the two filter
\* queries of the store applied to the states these reach.  Texts are short
\* so that LIKE and split(",") can be computed character by character.

\* valid argument lists of create_memory (title and content not empty, no
\* tag twice, importance within 1..5, unlock_date already an ISO string)
FieldSets ==
    { [ title |-> "Ab", content |-> "text", unlock_date |-> 1,
        category |-> CatId("loc", "Letter"), tags |-> <<"a">>,
        media_path |-> NULL, mood |-> "Happy", importance |-> 3 ],
      [ title |-> "b", content |-> "more", unlock_date |-> MaxNow,
        category |-> CatId("loc", "Milestone"), tags |-> <<"A,b", "b">>,
        media_path |-> "photo.png", mood |-> NULL, importance |-> 5 ],
      [ title |-> "ab", content |-> "text", unlock_date |-> MaxNow,
        category |-> NULL, tags |-> <<>>,
        media_path |-> NULL, mood |-> "Calm", importance |-> 1 ] }

InitRecords ==
    /\ InitSession
    /\ local = SetupStore("loc")
    /\ ext = EmptyStore
    /\ now = 1
    /\ memGen = 0
    /\ respGen = 0
    /\ steps = 0
    /\ last = Call("init", 0, TRUE, 0)
    /\ tracking = FALSE
    /\ everUnlocked = {}
    /\ intact = TRUE
    /\ backup = NoFile

CreateRecord ==
    /\ memGen < MaxMem
    /\ \E f \in FieldSets :
          LET memory_id == memGen + 1
              r == create_memory(local, memory_id, now, f.title, f.content,
                                 f.unlock_date, f.category, f.tags,
                                 f.media_path, f.mood, f.importance, "date")
          IN  /\ local' = r.store
              /\ last' = [Call("create_memory", memory_id, ~r.raised, 0)
                              EXCEPT !.args = f]
    /\ memGen' = memGen + 1
    /\ UNCHANGED <<session, files, ext, now, respGen, steps, tracking, everUnlocked>>

UnlockRecord ==
    \E memory_id \in LocalMemIds :
        LET r == unlock_memory(local, memory_id)
        IN  /\ local' = r.store
            /\ last' = Call("unlock_memory", memory_id, r.success, 0)
            /\ UNCHANGED <<session, files, ext, now, memGen, respGen, steps, tracking, everUnlocked>>

RespondRecord ==
    /\ respGen < MaxResp
    /\ \E memory_id \in MemIdsOf(local) :
          LET response_id == respGen + 1
              r == add_response(local, response_id, now, memory_id, "reply", NULL)
          IN  /\ local' = r.store
              /\ last' = Call("add_response", memory_id, ~r.raised, 0)
    /\ respGen' = respGen + 1
    /\ UNCHANGED <<session, files, ext, now, memGen, steps, tracking, everUnlocked>>

\* argument lists given to get_locked_memories
BrowseInputs ==
    { [ category_id |-> c, sort_field |-> "unlock_date", sort_order |-> "ASC",
        search_text |-> t, limit |-> MaxMem ] :
        c \in {NULL, CatId("loc", "Milestone")}, t \in {"", "a", "B", "_", ","} }
    \cup
    { [ category_id |-> CatId("loc", "Letter"), sort_field |-> "importance",
        sort_order |-> "DESC", search_text |-> "", limit |-> 1 ] }

\* filter dictionaries given to get_memories_with_filters: those
\* get_filtered_unlocked_memories builds (its date key is
\* "unlock_after_date"), the date bound under the key the query tests, and
\* dictionaries that hold None under category_id or has_responses
FilterInputs ==
    { [ k \in {"is_unlocked"} |-> 1 ],
      ("is_unlocked" :> 1) @@ ("unlock_after_date" :> MaxNow),
      ("is_unlocked" :> 1) @@ ("category_id" :> CatId("loc", "Letter")),
      ("is_unlocked" :> 1) @@ ("has_responses" :> "True"),
      ("is_unlocked" :> 1) @@ ("has_responses" :> "False"),
      ("is_unlocked" :> 1) @@ ("unlocked_after_date" :> MaxNow),
      ("is_unlocked" :> 0) @@ ("unlocked_after_date" :> 1),
      [ k \in {"unlocked_after_date"} |-> MaxNow ],
      [ k \in {"has_responses"} |-> "True" ],
      [ k \in {"has_responses"} |-> "False" ],
      ("has_responses" :> "True") @@ ("unlocked_after_date" :> 1),
      ("has_responses" :> "True") @@ ("category_id" :> NULL),
      ("is_unlocked" :> 0) @@ ("category_id" :> NULL),
      ("is_unlocked" :> 0) @@ ("has_responses" :> NULL),
      ("unlocked_after_date" :> MaxNow) @@ ("unlock_after_date" :> MaxNow) }

\* a query leaves the store alone; its arguments and its result are kept
Query(op, args, ok, result) ==
    [ op |-> op, id |-> 0, ok |-> ok, count |-> 0, args |-> args, result |-> result ]

BrowseLocked ==
    /\ \E q \in BrowseInputs :
          last' = Query("get_locked_memories", q, TRUE,
                        get_locked_memories(local, q.category_id, q.sort_field,
                                            q.sort_order, q.search_text, q.limit))
    /\ UNCHANGED <<session, files, local, ext, now, memGen, respGen, steps, tracking, everUnlocked>>

\* the vault is refreshed under a sort option; the parameters computed for
\* the query are kept with the result
BrowseVault ==
    /\ \E sort_option \in SortOptions :
          last' = Query("get_filtered_locked_memories",
                        [ sort_option |-> sort_option,
                          sort_field |-> SortParameters(sort_option).sort_field,
                          sort_order |-> SortParameters(sort_option).sort_order ],
                        TRUE,
                        get_filtered_locked_memories(local, NULL, sort_option, ""))
    /\ UNCHANGED <<session, files, local, ext, now, memGen, respGen, steps, tracking, everUnlocked>>

FilterMemories ==
    /\ \E filters \in FilterInputs :
          LET r == get_memories_with_filters(local, filters)
          IN  last' = Query("get_memories_with_filters", filters, ~r.raised,
                            r.memories)
    /\ UNCHANGED <<session, files, local, ext, now, memGen, respGen, steps, tracking, everUnlocked>>

NextRecords ==
    \/ CreateRecord
    \/ UnlockRecord
    \/ RespondRecord
    \/ BrowseLocked
    \/ BrowseVault
    \/ FilterMemories

SpecRecords == InitRecords /\ [][NextRecords]_vars

\* ------------------------------------------------- import on the files
\* A further specification: create_memory called with each unlock type and
\* with importance values inside and outside 1..5.
UnlockTypes == {"date", "interval", "random"}
OutOfRange == {0, 6}

CreateTyped ==
    /\ memGen < MaxMem
    /\ \E f \in FieldSets, unlock_type \in UnlockTypes :
       \E importance \in {f.importance} \cup OutOfRange :
          LET memory_id == memGen + 1
              r == create_memory(local, memory_id, now, f.title, f.content,
                                 f.unlock_date, f.category, f.tags,
                                 f.media_path, f.mood, importance, unlock_type)
          IN  /\ local' = r.store
              /\ last' = [Call("create_memory", memory_id, ~r.raised, 0)
                              EXCEPT !.args = [ title |-> f.title,
                                                importance |-> importance,
                                                unlock_type |-> unlock_type ]]
    /\ memGen' = memGen + 1
    /\ UNCHANGED <<session, files, ext, now, respGen, steps, tracking, everUnlocked>>

NextCreate ==
    \/ CreateTyped
    \/ UnlockRecord

SpecCreate == InitRecords /\ [][NextCreate]_vars

\* A further specification: check_unlockable_memories step by step, its
\* read and each unlock_memory call of its loop being separate transactions,
\* while another writer on the same file creates and deletes memories.
InitScan ==
    /\ InitSession
    /\ local = SetupStore("loc")
    /\ ext = EmptyStore
    /\ now \in 1 .. MaxNow
    /\ memGen = 0
    /\ respGen = 0
    /\ steps = 0
    /\ last = Call("init", 0, TRUE, 0)
    /\ tracking = FALSE
    /\ everUnlocked = {}
    /\ intact = TRUE
    /\ backup = NoFile

DeleteRecord ==
    \E memory_id \in MemIdsOf(local) :
        LET r == delete_memory(local, memory_id)
        IN  /\ local' = r.store
            /\ last' = Call("delete_memory", memory_id, r.success, 0)
            /\ UNCHANGED <<session, files, ext, now, memGen, respGen, steps, tracking, everUnlocked>>

\* unlockable_memories = self.memory_keeper.get_unlockable_memories()
ScanRead ==
    /\ ~scan.active
    /\ LET unlockable_memories == get_unlockable_memories(local, now)
       IN  scan' = [ active |-> TRUE, todo |-> unlockable_memories,
                     unlocked_count |-> 0, read |-> unlockable_memories,
                     written |-> {} ]
    /\ last' = Call("get_unlockable_memories", 0, TRUE, 0)
    /\ UNCHANGED <<files, local, ext, now, memGen, respGen, steps, tracking, everUnlocked, window, unlocked_memory_list>>

\* one turn of the loop: success = unlock_memory(memory["id"])
ScanUnlockOne ==
    /\ scan.active
    /\ \E memory_id \in scan.todo :
          LET r == unlock_memory(local, memory_id)
          IN  /\ local' = r.store
              /\ scan' = [scan EXCEPT
                            !.todo = @ \ {memory_id},
                            !.unlocked_count = IF r.success THEN @ + 1 ELSE @,
                            !.written = IF memory_id \in MemIdsOf(local)
                                        THEN @ \cup {memory_id} ELSE @]
              /\ last' = Call("unlock_memory", memory_id, r.success, 0)
    /\ UNCHANGED <<files, ext, now, memGen, respGen, steps, tracking, everUnlocked, window, unlocked_memory_list>>

\* the loop is over: unlocked_count is what the scan reports
ScanEnd ==
    /\ scan.active
    /\ scan.todo = {}
    /\ scan' = [scan EXCEPT !.active = FALSE]
    /\ last' = Call("check_unlockable_memories", 0, TRUE, scan.unlocked_count)
    /\ UNCHANGED <<files, local, ext, now, memGen, respGen, steps, tracking, everUnlocked, window, unlocked_memory_list>>

NextScan ==
    \/ CreateRecord
    \/ DeleteRecord
    \/ ScanRead
    \/ ScanUnlockOne
    \/ ScanEnd

SpecScan == InitScan /\ [][NextScan]_vars

\* A further specification: one session of the window after another. init_ui
\* builds the unlocked tab, which loads its list, and then scans; afterwards
\* the user changes the filter, saves memories and restarts, and time passes.
FilterOptions ==
    { "All Unlocked", "Recent (Last 30 Days)", "By Category", "With Responses",
      "Without Responses" }

\* the filter dictionary get_filtered_unlocked_memories builds; thirty days
\* are longer than the span of time 1 .. MaxNow
get_filtered_unlocked_memories(st, filter_option, category_id, now_) ==
    LET filter_params ==
            IF filter_option = "Recent (Last 30 Days)"
            THEN ("is_unlocked" :> 1) @@ ("unlock_after_date" :> now_ - MaxNow)
            ELSE IF filter_option = "By Category" /\ Truthy(category_id)
            THEN ("is_unlocked" :> 1) @@ ("category_id" :> category_id)
            ELSE IF filter_option = "With Responses"
            THEN ("is_unlocked" :> 1) @@ ("has_responses" :> "True")
            ELSE IF filter_option = "Without Responses"
            THEN ("is_unlocked" :> 1) @@ ("has_responses" :> "False")
            ELSE [ k \in {"is_unlocked"} |-> 1 ]
    IN  get_memories_with_filters(st, filter_params).memories

\* load_unlocked_memories: the list is cleared and gets one item per memory
\* returned, carrying the memory id (the placeholder item carries none)
load_unlocked_memories(st, w, now_) ==
    LET memories == get_filtered_unlocked_memories(st, w.filter_option,
                                                   w.category_id, now_)
    IN  [ i \in 1 .. Len(memories) |-> memories[i].id ]

\* what the window did last, and whether it loaded the unlocked list
SessionCall(op, count, loaded) ==
    [Call(op, 0, TRUE, count) EXCEPT !.args = [ loaded |-> loaded ]]

\* init_ui, first part: create_unlocked_tab ends with load_unlocked_memories
CreateUnlockedTab ==
    /\ window.phase = "init"
    /\ window' = [window EXCEPT !.phase = "tabs"]
    /\ unlocked_memory_list' = load_unlocked_memories(local, window, now)
    /\ last' = SessionCall("create_unlocked_tab", 0, TRUE)
    /\ UNCHANGED <<scan, files, local, ext, now, memGen, respGen, steps, tracking, everUnlocked>>

\* init_ui, last statement: the scan; the list is loaded again only when
\* something was unlocked and the user answers Yes
CheckUnlockableMemories ==
    /\ window.phase = "tabs"
    /\ window' = [window EXCEPT !.phase = "running"]
    /\ \E answer \in {"Yes", "No"} :
          LET r == check_unlockable_memories(local, now)
              loaded == r.unlocked_count > 0 /\ answer = "Yes"
          IN  /\ local' = r.store
              /\ unlocked_memory_list' =
                     IF loaded THEN load_unlocked_memories(r.store, window, now)
                     ELSE unlocked_memory_list
              /\ last' = SessionCall("check_unlockable_memories",
                                     r.unlocked_count, loaded)
    /\ UNCHANGED <<scan, files, ext, now, memGen, respGen, steps, tracking, everUnlocked>>

\* the user picks a filter: filter_unlocked_memories -> load_unlocked_memories
FilterUnlockedMemories ==
    /\ window.phase = "running"
    /\ \E filter_option \in FilterOptions :
       \E category_id \in {NULL, CatId("loc", "Letter")} :
          /\ window' = [window EXCEPT !.filter_option = filter_option,
                                      !.category_id = category_id]
          /\ unlocked_memory_list' = load_unlocked_memories(local, window', now)
    /\ last' = SessionCall("filter_unlocked_memories", 0, TRUE)
    /\ UNCHANGED <<scan, files, local, ext, now, memGen, respGen, steps, tracking, everUnlocked>>

\* save_memory: the memory is created; one whose unlock date has come is
\* unlocked at once and the unlocked list is loaded
SaveMemory ==
    /\ window.phase = "running"
    /\ memGen < MaxMem
    /\ \E f \in FieldSets :
          LET memory_id == memGen + 1
              created == create_memory(local, memory_id, now, f.title, f.content,
                                       f.unlock_date, f.category, f.tags, NULL,
                                       f.mood, f.importance, "date").store
              is_unlockable == f.unlock_date <= now
          IN  /\ local' = IF is_unlockable
                          THEN unlock_memory(created, memory_id).store
                          ELSE created
              /\ unlocked_memory_list' =
                     IF is_unlockable
                     THEN load_unlocked_memories(local', window, now)
                     ELSE unlocked_memory_list
              /\ last' = SessionCall("save_memory", 0, is_unlockable)
    /\ memGen' = memGen + 1
    /\ UNCHANGED <<scan, window, files, ext, now, respGen, steps, tracking, everUnlocked>>

\* time passes while the window is open or closed
Elapse ==
    /\ now < MaxNow
    /\ now' = now + 1
    /\ last' = SessionCall("tick", 0, FALSE)
    /\ UNCHANGED <<session, files, local, ext, memGen, respGen, steps, tracking, everUnlocked>>

\* the application is closed and started again
Restart ==
    /\ window.phase = "running"
    /\ window' = NewWindow
    /\ unlocked_memory_list' = <<>>
    /\ local' = setup_database(local, "new")
    /\ last' = SessionCall("main", 0, FALSE)
    /\ UNCHANGED <<scan, files, ext, now, memGen, respGen, steps, tracking, everUnlocked>>

NextSession ==
    \/ CreateUnlockedTab
    \/ CheckUnlockableMemories
    \/ FilterUnlockedMemories
    \/ SaveMemory
    \/ Elapse
    \/ Restart

SpecSession == InitRecords /\ [][NextSession]_vars

\* A third specification: the store file, its backup and an archive under
\* export_database and import_database, with merge and with replace, every
\* copy of the replace path completing or failing.

\* stores this installation holds when an import begins: nothing yet, or
\* one memory created here
LocalStores ==
    { SetupStore("loc"),
      create_memory(SetupStore("loc"), 1, 1, "Birthday Letter", "text", 1,
                    CatId("loc", "Letter"), <<"family">>, NULL, "Happy", 3,
                    "date").store }

\* the store st with the categories row of the given id set to the given name
WithCategory(st, id, name) ==
    [st EXCEPT !.categories =
        { c \in @ : c.id # id } \cup { [id |-> id, name |-> name] }]

\* archives whose categories table holds a name that is not a seed name: a
\* store of another installation with a sixth category "Travel", and a copy
\* of this installation's store in which the category "Letter" was renamed
\* "Note"; each with one memory in that category
ArchiveStores ==
    { create_memory(WithCategory(SetupStore("oth"), CatId("oth", "Travel"), "Travel"),
                    ForeignMemId, 1, "Trip", "text", 1, CatId("oth", "Travel"),
                    <<>>, NULL, NULL, 3, "date").store,
      create_memory(WithCategory(SetupStore("loc"), CatId("loc", "Letter"), "Note"),
                    ForeignMemId, 1, "Memo", "text", 1, CatId("loc", "Letter"),
                    <<>>, NULL, NULL, 3, "date").store }

\* what one import_database call meets: the archive, the mode, and the
\* outcome of each copy it gets to make (a copy it does not reach has none)
ImportInputs ==
    { i \in [ shape : ArchiveShapes, merge : BOOLEAN,
              faults : [ {"backup", "replace", "restore"} -> Faults ] ] :
        /\ (i.merge \/ ~i.shape.db \/ i.shape.metadata \in {"missing", "invalid"})
              => \A c \in DOMAIN i.faults : i.faults[c] = "none"
        /\ i.faults.backup # "none" => i.faults.replace = "none"
        /\ (i.faults.backup = "none" /\ i.faults.replace = "none"
               /\ i.shape.metadata = "dict") => i.faults.restore = "none" }

InitImport ==
    /\ InitSession
    /\ local \in LocalStores
    /\ ext \in ForeignStores \cup ArchiveStores
    /\ now = 1
    /\ memGen = 1
    /\ respGen = 0
    /\ steps = 0
    /\ last = Call("init", 0, TRUE, 0)
    /\ tracking = FALSE
    /\ everUnlocked = {}
    /\ intact = TRUE
    /\ backup = NoFile

\* export_database copies the store file as it is into the archive; sqlite3
\* is not involved
ExportFile ==
    /\ intact
    /\ ext' = local
    /\ last' = Call("export_database", 0, TRUE, 0)
    /\ UNCHANGED <<local, now, memGen, respGen, steps, tracking, everUnlocked, files, session>>

ImportDatabase ==
    /\ \E i \in ImportInputs :
          LET fs == [ db |-> File(local, intact), backup |-> backup,
                      import |-> ExtractAll(i.shape, ext) ]
              r == import_database(fs, i.shape, i.merge, i.faults)
          IN  /\ local' = r.fs.db.content
              /\ intact' = r.fs.db.whole
              /\ backup' = r.fs.backup
              /\ ext' = IF i.shape.db THEN r.fs.import.content ELSE ext
              /\ last' = [Call("import_database", 0, r.success, r.imported_count)
                              EXCEPT !.args = [ merge |-> i.merge,
                                                shape |-> i.shape,
                                                faults |-> i.faults,
                                                message |-> r.message ]]
    /\ UNCHANGED <<now, memGen, respGen, steps, tracking, everUnlocked, session>>

\* the application is started again: MemoryKeeper() runs setup_database on
\* the store file it finds
SetupDatabase ==
    /\ intact
    /\ local' = setup_database(local, "new")
    /\ last' = Call("setup_database", 0, TRUE, 0)
    /\ UNCHANGED <<ext, now, memGen, respGen, steps, tracking, everUnlocked, files, session>>

NextImport ==
    \/ ExportFile
    \/ ImportDatabase
    \/ SetupDatabase

SpecImport == InitImport /\ [][NextImport]_vars

\* ============================================================ the claims
IsMerge(c) == c.op = "import_database"

\* C1 (as stated): a memory id that has once been stored with
\* is_unlocked = true is never afterwards stored with is_unlocked = false,
\* over any sequence of create, unlock, scan, add_response, delete and merge.
C1_OnceUnlockedNeverStoredLocked ==
    \A m \in everUnlocked \cap MemIdsOf(local) :
        local.memories[m].is_unlocked = 1

\* C1 (amended): a stored memory that is unlocked stays unlocked over every
\* operation for as long as it remains in the store.
C1_UnlockedWhileStored ==
    [][ \A m \in MemIdsOf(local) \cap MemIdsOf(local') :
            local.memories[m].is_unlocked = 1
                => local'.memories[m].is_unlocked = 1 ]_vars

\* a merge has run on a store holding an unlocked memory of which the
\* archive holds a locked version
C1_Witness ==
    /\ IsMerge(last) /\ last.ok
    /\ \E m \in MemIdsOf(local) \cap MemIdsOf(ext) :
          /\ local.memories[m].is_unlocked = 1
          /\ ext.memories[m].is_unlocked = 0

\* C2: after delete_memory(id) returns, no memory_tags row and no responses
\* row with memory_id = id remains and get_memory_by_id(id) is None.
C2_CascadeDelete ==
    [][ last'.op = "delete_memory" =>
            /\ TagsOf(local', last'.id) = {}
            /\ ResponsesOf(local', last'.id) = {}
            /\ get_memory_by_id(local', last'.id) = None ]_vars

\* delete_memory has removed a memory that had a tag and a response (the
\* archive written before still shows them)
C2_Witness ==
    /\ last.op = "delete_memory" /\ last.ok
    /\ last.id \in MemIdsOf(ext)
    /\ TagsOf(ext, last.id) # {}
    /\ ResponsesOf(ext, last.id) # {}
    /\ last.id \notin MemIdsOf(local)

\* C3: every memory_tags row and every responses row has a memory_id that is
\* the id of a memory present in the store.
C3_NoOrphans ==
    /\ \A t \in local.tags : t[1] \in MemIdsOf(local)
    /\ \A r \in RespIdsOf(local) : local.responses[r].memory_id \in MemIdsOf(local)

\* C4: add_response with a memory_id that is not the id of a stored memory
\* fails and adds no row to the responses table.
C4_AddResponseRejectsUnknownMemory ==
    [][ (last'.op = "add_response" /\ last'.id \notin MemIdsOf(local)) =>
            /\ ~last'.ok
            /\ local'.responses = local.responses ]_vars

\* C5: get_memory_count() returns counts with locked + unlocked = total.
C5_CountConsistency ==
    LET c == get_memory_count(local)
    IN  c.locked + c.unlocked = c.total

\* a merge has inserted memories and the store holds locked and unlocked ones
C5_Witness ==
    /\ IsMerge(last) /\ last.ok /\ last.count > 0
    /\ get_memory_count(local).locked > 0
    /\ get_memory_count(local).unlocked > 0

\* C6: merging the same archive twice in a row: the first merge inserts
\* exactly the imported memories whose id was not present locally and returns
\* their number; the second inserts nothing, returns 0 and leaves the local
\* store unchanged.
C6_MergeIdempotence ==
    [][ IsMerge(last') =>
            /\ last'.ok
            /\ MemIdsOf(local') = MemIdsOf(local) \cup MemIdsOf(ext)
            /\ last'.count = Cardinality(MemIdsOf(ext) \ MemIdsOf(local))
            /\ IsMerge(last) => (last'.count = 0 /\ local' = local) ]_vars

\* C7: if a step of a merge fails, every change of that merge is rolled
\* back: categories, memories, tags and responses are as before the merge,
\* and import_database reports the failure.
C7_MergeAtomicity ==
    [][ (IsMerge(last') /\ (merge_databases(local, ext).raised \/ ~last'.ok)) =>
            /\ local' = local
            /\ ~last'.ok ]_vars

\* a merge has failed on a response id that was already present locally,
\* after the memory the response belongs to had been new to the store
C7_Witness ==
    /\ IsMerge(last) /\ ~last.ok
    /\ NewMemoryIds(local, ext) # {}
    /\ ResponseIdsToImport(NewMemoryIds(local, ext), ext) \cap RespIdsOf(local) # {}

\* the rows of store st that belong to memory m
RowsOf(st, m) ==
    [ memory    |-> st.memories[m],
      tags      |-> TagsOf(st, m),
      responses |-> [ r \in ResponsesOf(st, m) |-> st.responses[r] ] ]

\* C8: for every memory id present both locally and in the archive, a
\* successful merge leaves the local memory's fields, tags and responses
\* unchanged.
C8_MergeSkipsExisting ==
    [][ (IsMerge(last') /\ last'.ok) =>
            \A m \in MemIdsOf(local) \cap MemIdsOf(ext) :
                /\ m \in MemIdsOf(local')
                /\ RowsOf(local', m) = RowsOf(local, m) ]_vars

\* a merge has succeeded although the archive holds, for an id present
\* locally, a version with other fields, tags or responses
C8_Witness ==
    /\ IsMerge(last) /\ last.ok
    /\ \E m \in MemIdsOf(local) \cap MemIdsOf(ext) :
          /\ local.memories[m].is_unlocked # ext.memories[m].is_unlocked
          /\ local.memories[m].category # ext.memories[m].category
          /\ ResponsesOf(local, m) # ResponsesOf(ext, m)

\* C9: after a successful merge, for every memory the merge inserted, the
\* local store holds exactly the tags and exactly the responses the archive
\* holds for that id, and the memory's fields other than category equal the
\* imported ones.
C9_InsertedCopiedVerbatim ==
    [][ (IsMerge(last') /\ last'.ok) =>
            \A m \in MemIdsOf(local') \ MemIdsOf(local) :
                /\ m \in MemIdsOf(ext)
                /\ RowsOf(local', m).tags = RowsOf(ext, m).tags
                /\ RowsOf(local', m).responses = RowsOf(ext, m).responses
                /\ [local'.memories[m] EXCEPT !.category = NULL]
                       = [ext.memories[m] EXCEPT !.category = NULL] ]_vars

\* C10: create_memory called with an empty title fails and writes nothing.
C10_EmptyTitleRejected ==
    [][ (last'.op = "create_memory" /\ last'.args.title = "") =>
            /\ ~last'.ok
            /\ local' = local ]_vars

\* C11: create_memory is atomic with its tags: when the insertion of one of
\* the tags fails (the tag list holds the same tag twice), the call fails and
\* afterwards the store holds neither the memory row nor any tag row of it.
C11_CreateAtomicWithTags ==
    [][ (last'.op = "create_memory" /\ ~TagsAccepted(last'.args.tags)) =>
            /\ ~last'.ok
            /\ last'.id \notin MemIdsOf(local')
            /\ TagsOf(local', last'.id) = {}
            /\ local' = local ]_vars

\* create_memory has been called with a titled memory whose tag list repeats
\* a tag, and has failed
C11_Witness ==
    /\ last.op = "create_memory" /\ ~last.ok
    /\ last.args.title # ""
    /\ \E i, j \in 1 .. Len(last.args.tags) :
          i < j /\ last.args.tags[i] = last.args.tags[j]
    /\ last.id \notin MemIdsOf(local)

\* C12: round trip: after create_memory(f, T) with a valid field set f and a
\* tag set T (the empty one included), get_memory_by_id(id) returns a memory
\* whose title, content, media_path, unlock_date, category, mood and
\* importance equal f and whose tag set equals T.
C12_RoundTrip ==
    [][ (last'.op = "create_memory" /\ last'.ok) =>
            LET f == last'.args
                memory == get_memory_by_id(local', last'.id)
            IN  /\ memory # None
                /\ memory.title = f.title
                /\ memory.content = f.content
                /\ memory.media_path = f.media_path
                /\ memory.unlock_date = f.unlock_date
                /\ memory.category = f.category
                /\ memory.mood = f.mood
                /\ memory.importance = f.importance
                /\ "tags" \in DOMAIN memory
                /\ memory.tags = { f.tags[i] : i \in 1 .. Len(f.tags) } ]_vars

\* C13: unlock_memory(id) returns true and leaves the memory unlocked
\* whenever a memory with that id exists, whatever its unlock_date and
\* whether or not it was unlocked already; it returns false and changes
\* nothing when no memory has that id.
C13_UnlockMemoryResult ==
    [][ last'.op = "unlock_memory" =>
            IF last'.id \in MemIdsOf(local)
            THEN /\ last'.ok
                 /\ last'.id \in MemIdsOf(local')
                 /\ local'.memories[last'.id].is_unlocked = 1
            ELSE /\ ~last'.ok
                 /\ local' = local ]_vars

\* unlock_memory has returned true for a memory whose unlock_date is still
\* in the future and that was unlocked already (the archive written before
\* the call shows it unlocked)
C13_Witness ==
    /\ last.op = "unlock_memory" /\ last.ok
    /\ last.id \in MemIdsOf(local) \cap MemIdsOf(ext)
    /\ local.memories[last.id].unlock_date > now
    /\ ext.memories[last.id].is_unlocked = 1
    /\ local.memories[last.id].is_unlocked = 1

\* C14: delete_memory(id) returns true exactly when a memory with that id
\* was in the store immediately before the call.
C14_DeleteMemoryResult ==
    [][ last'.op = "delete_memory" =>
            (last'.ok <=> last'.id \in MemIdsOf(local)) ]_vars

\* delete_memory has returned false for an id of no memory although it
\* removed a response stored under that id (the archive written before
\* still shows the response and no such memory)
C14_Witness ==
    /\ last.op = "delete_memory" /\ ~last.ok
    /\ last.id \notin MemIdsOf(ext)
    /\ ResponsesOf(ext, last.id) # {}
    /\ ResponsesOf(local, last.id) = {}

\* C15: scan-and-promote unlocks exactly the memories that are locked and
\* have unlock_date <= now, leaves every other memory as it is (a locked
\* one with unlock_date > now stays locked), counts exactly the memories it
\* unlocked, and a second scan right after the first counts 0.
C15_ScanAndPromote ==
    [][ last'.op = "check_unlockable_memories" =>
            LET due == { m \in MemIdsOf(local) :
                           /\ local.memories[m].is_unlocked = 0
                           /\ local.memories[m].unlock_date <= now }
            IN  /\ MemIdsOf(local') = MemIdsOf(local)
                /\ \A m \in due : local'.memories[m].is_unlocked = 1
                /\ \A m \in MemIdsOf(local) \ due :
                       local'.memories[m] = local.memories[m]
                /\ last'.count = Cardinality(due)
                /\ last.op = "check_unlockable_memories" => last'.count = 0 ]_vars

\* a scan has unlocked a memory whose unlock_date is exactly now and has
\* left another one, due later, locked
C15_Witness ==
    /\ last.op = "check_unlockable_memories" /\ last.count > 0
    /\ \E m \in MemIdsOf(local) :
          /\ local.memories[m].unlock_date = now
          /\ local.memories[m].is_unlocked = 1
    /\ \E m \in MemIdsOf(local) :
          /\ local.memories[m].unlock_date > now
          /\ local.memories[m].is_unlocked = 0

\* the call was import_database(merge = False) on an archive that passed
\* the validity checks, so the replace was attempted
IsReplaceAttempt(c) ==
    /\ c.op = "import_database"
    /\ ~c.args.merge
    /\ c.args.shape.db
    /\ c.args.shape.metadata \in {"list", "dict"}

\* a step of the attempt failed: the backup copy, the copy over the store
\* file, or the reading of the count from the metadata
StepFailed(c) ==
    \/ c.args.faults.backup # "none"
    \/ c.args.faults.replace # "none"
    \/ c.args.shape.metadata = "list"

\* C16: when a step of a replace attempt fails (the backup copy, or the copy
\* of the imported store over the store file, possibly partway), then after
\* import_database has returned the store file holds, whole, the content it
\* held before the attempt, and the failure is reported.
C16_FailedReplaceKeepsStore ==
    [][ (IsReplaceAttempt(last') /\ StepFailed(last')) =>
            /\ ~last'.ok
            /\ local' = local
            /\ intact' = intact ]_vars

\* C17: import of an archive without the store file or without the metadata
\* file returns an "invalid export" failure and has written nothing: the
\* store file and the backup are as before.
C17_InvalidArchiveNoWrite ==
    [][ (last'.op = "import_database"
            /\ (~last'.args.shape.db \/ last'.args.shape.metadata = "missing")) =>
            /\ ~last'.ok
            /\ last'.args.message \in { "Invalid export file: Missing database",
                                       "Invalid export file: Missing metadata" }
            /\ local' = local
            /\ intact' = intact
            /\ backup' = backup ]_vars

\* a replace import of an archive that has a store differing from the local
\* one, but no metadata, has been refused, with a backup of other content
\* lying next to the store file
C17_Witness ==
    /\ last.op = "import_database" /\ ~last.ok
    /\ ~last.args.merge
    /\ last.args.shape.db /\ last.args.shape.metadata = "missing"
    /\ last.args.message = "Invalid export file: Missing metadata"
    /\ intact /\ local # ext
    /\ backup.exists /\ backup.content # local

\* C18: merge and replace never change the imported store, whether the
\* operation succeeds or fails.
C18_ImportedStoreReadOnly ==
    [][ last'.op = "import_database" => ext' = ext ]_vars

\* a replace has put the imported store in the place of a different local
\* one, which is now the backup
C18_Witness ==
    /\ last.op = "import_database" /\ last.ok /\ ~last.args.merge
    /\ intact /\ local = ext
    /\ backup.exists /\ backup.whole /\ backup.content # ext

\* text contains s, letters compared without regard to case
Contains(text, s) ==
    \E i \in 1 .. Len(text) - Len(s) + 1 :
        LOWER(SubSeq(text, i, i + Len(s) - 1)) = LOWER(s)

\* the tags an entry of a query result carries
TagsCarried(entry) ==
    IF "list" \in DOMAIN entry.tags
    THEN { entry.tags.list[i] : i \in 1 .. Len(entry.tags.list) }
    ELSE {}

\* C19: with a limit of at least the store size, get_locked_memories returns
\* exactly the memories that are locked, that have category = category_id
\* when one is given, and whose title or one of whose tags contains
\* search_text (case-insensitively) when one is given; each of them once,
\* with all of its tags.
C19_LockedBrowseQuery ==
    [][ (last'.op = "get_locked_memories"
            /\ last'.args.limit >= Cardinality(MemIdsOf(local))) =>
            LET q == last'.args
                result == last'.result
                expected ==
                    { m \in MemIdsOf(local) :
                        /\ local.memories[m].is_unlocked = 0
                        /\ q.category_id # NULL =>
                              local.memories[m].category = q.category_id
                        /\ q.search_text # "" =>
                              \/ Contains(Chars(local.memories[m].title),
                                          Chars(q.search_text))
                              \/ \E tag \in TagsOf(local, m) :
                                    Contains(Chars(tag), Chars(q.search_text)) }
            IN  /\ { result[i].id : i \in 1 .. Len(result) } = expected
                /\ \A i, j \in 1 .. Len(result) :
                       result[i].id = result[j].id => i = j
                /\ \A i \in 1 .. Len(result) :
                       TagsCarried(result[i]) = TagsOf(local, result[i].id) ]_vars

\* C20: when the filters given to get_memories_with_filters contain
\* unlocked_after_date = d, the call succeeds and returns exactly the
\* memories that satisfy the other filters given and have unlock_date >= d.
C20_UnlockedAfterDate ==
    [][ (last'.op = "get_memories_with_filters"
            /\ "unlocked_after_date" \in DOMAIN last'.args) =>
            LET filters == last'.args
                result == last'.result
                others == [ k \in DOMAIN filters
                               \ {"unlocked_after_date", "unlock_after_date"}
                            |-> filters[k] ]
            IN  /\ last'.ok
                /\ { result[i].id : i \in 1 .. Len(result) } =
                       { m \in MemIdsOf(local) :
                           /\ FiltersMatch(local, m, others)
                           /\ local.memories[m].unlock_date
                                  >= filters["unlocked_after_date"] } ]_vars

\* the filters given without the keys in keys
Without(filters, keys) == [ k \in DOMAIN filters \ keys |-> filters[k] ]

\* C21: with has_responses = true get_memories_with_filters returns exactly
\* the memories that satisfy the other filters given and have at least one
\* response, each once however many responses it has; with has_responses =
\* false exactly those that satisfy the other filters and have no response.
C21_HasResponsesFilter ==
    [][ (last'.op = "get_memories_with_filters"
            /\ "has_responses" \in DOMAIN last'.args
            /\ last'.args["has_responses"] \in {"True", "False"}) =>
            LET filters == last'.args
                result == last'.result
                others == Without(filters, {"has_responses"})
                wanted ==
                    { m \in MemIdsOf(local) :
                        /\ \A k \in DOMAIN others :
                               k = "is_unlocked" =>
                                   local.memories[m].is_unlocked = others[k]
                        /\ \A k \in DOMAIN others :
                               k = "category_id" =>
                                   local.memories[m].category = others[k]
                        /\ \A k \in DOMAIN others :
                               k = "unlocked_after_date" =>
                                   local.memories[m].unlock_date >= others[k]
                        /\ (filters["has_responses"] = "True")
                               <=> (ResponsesOf(local, m) # {}) }
            IN  /\ last'.ok
                /\ { result[i].id : i \in 1 .. Len(result) } = wanted
                /\ \A i, j \in 1 .. Len(result) :
                       result[i].id = result[j].id => i = j ]_vars

\* the keys of filters given with the value None
NoneKeys(filters) ==
    { k \in DOMAIN filters \cap {"category_id", "has_responses"} : filters[k] = NULL }

\* C22: an optional parameter that is absent or given as None or empty
\* imposes no constraint: get_locked_memories without category_id and
\* search_text returns all locked memories, and get_memories_with_filters
\* with a None-valued category_id or has_responses returns what it returns
\* without that key, never an empty "matches null" result or an error.
C22_AbsentMeansNoConstraint ==
    [][ /\ (last'.op = "get_locked_memories"
                /\ last'.args.category_id = NULL /\ last'.args.search_text = "") =>
               { last'.result[i].id : i \in 1 .. Len(last'.result) }
                   = { m \in MemIdsOf(local) : local.memories[m].is_unlocked = 0 }
        /\ (last'.op = "get_memories_with_filters" /\ NoneKeys(last'.args) # {}) =>
               LET asif == get_memories_with_filters(local,
                               Without(last'.args, NoneKeys(last'.args)))
               IN  /\ last'.ok = ~asif.raised
                   /\ last'.result = asif.memories ]_vars

\* C23: initialising a store on an empty database inserts the five seed
\* categories; every later initialisation of the same database, after any
\* imports by merge or by replacement, inserts none; and in every state no
\* category name occurs on two rows.
C23_SeedCategoriesOnce ==
    /\ [](\A c, d \in local.categories : c.name = d.name => c = d)
    /\ [][ last'.op = "setup_database" =>
              /\ local'.categories = local.categories
              /\ CategoryNames(setup_database(EmptyStore, "new")) = SeedNames
              /\ Cardinality(setup_database(EmptyStore, "new").categories)
                     = Cardinality(SeedNames) ]_vars

\* an initialisation after a merge that inserted a category with a new name
C23_Witness ==
    /\ last.op = "setup_database"
    /\ SeedNames \subseteq CategoryNames(local)
    /\ CategoryNames(local) # SeedNames

\* C24: create_memory stores the unlock_type it is given unchanged, and
\* stores a non-null unlock_conditions payload exactly when the unlock_type
\* is not "date".
C24_UnlockConditionsPayload ==
    [][ (last'.op = "create_memory" /\ last'.ok) =>
            LET row == local'.memories[last'.id]
            IN  /\ row.unlock_type = last'.args.unlock_type
                /\ (row.unlock_conditions # NULL)
                       <=> (last'.args.unlock_type # "date") ]_vars

\* both kinds have been created: one with and one without a payload
C24_Witness ==
    /\ last.op = "create_memory"
    /\ \E m, n \in MemIdsOf(local) :
          /\ local.memories[m].unlock_type = "date"
          /\ local.memories[m].unlock_conditions = NULL
          /\ local.memories[n].unlock_type = "interval"
          /\ local.memories[n].unlock_conditions # NULL

\* C25: create_memory called with an importance outside 1..5 is rejected
\* before any write, so the store is unchanged and no memory with such an
\* importance is stored.
C25_ImportanceRangeRejected ==
    [][ (last'.op = "create_memory" /\ last'.args.importance \notin 1 .. 5) =>
            /\ ~last'.ok
            /\ local' = local ]_vars

\* C26: each successful create_memory adds exactly one memory, locked, under
\* an id that no memory of the store had, and leaves every existing memory,
\* tag and response unchanged; the number of memories grows by one with each
\* creation, so n creations on an empty store leave n memories.
C26_CreateAddsOneLockedMemory ==
    [][ (last'.op = "create_memory" /\ last'.ok) =>
            /\ last'.id \notin MemIdsOf(local)
            /\ MemIdsOf(local') = MemIdsOf(local) \cup {last'.id}
            /\ Cardinality(MemIdsOf(local')) = Cardinality(MemIdsOf(local)) + 1
            /\ local'.memories[last'.id].is_unlocked = 0
            /\ \A m \in MemIdsOf(local) : local'.memories[m] = local.memories[m]
            /\ { t \in local'.tags : t[1] # last'.id } = local.tags
            /\ local'.responses = local.responses
            /\ local'.categories = local.categories ]_vars

\* a second creation, on a store that holds an unlocked, answered memory
C26_Witness ==
    /\ last.op = "create_memory" /\ last.ok
    /\ Cardinality(MemIdsOf(local)) >= 2
    /\ local.tags # {}
    /\ \E r \in RespIdsOf(local) :
          /\ local.responses[r].memory_id \in MemIdsOf(local) \ {last.id}
          /\ local.memories[local.responses[r].memory_id].is_unlocked = 1

\* C27: when a memory the scan read as eligible has been deleted before the
\* scan's unlock write for it, that write changes nothing (the memory is not
\* recreated) and is not counted, the scan goes on without an error, every
\* other memory is unlocked and counted by its write, and the scan reports
\* the number of memories that were stored when their write ran.
C27_ScanSkipsDeletedMemory ==
    [][ /\ (last'.op = "unlock_memory" /\ last'.id \notin MemIdsOf(local)) =>
               /\ local' = local
               /\ scan'.unlocked_count = scan.unlocked_count
               /\ scan'.active
        /\ (last'.op = "unlock_memory" /\ last'.id \in MemIdsOf(local)) =>
               /\ local'.memories[last'.id].is_unlocked = 1
               /\ scan'.unlocked_count = scan.unlocked_count + 1
        /\ last'.op = "check_unlockable_memories" =>
               /\ last'.ok
               /\ last'.count = Cardinality(scan.written)
               /\ scan.written \subseteq scan.read ]_vars

\* a scan that read two eligible memories, lost one to a deletion before its
\* write, and reported the other
C27_Witness ==
    /\ last.op = "check_unlockable_memories"
    /\ Cardinality(scan.read) = 2
    /\ Cardinality(scan.written) = 1
    /\ last.count = 1
    /\ scan.read \cap MemIdsOf(local) = scan.written

\* C28: a scan-and-promote pass runs at session start and before each load
\* of the unlocked list, so whenever the list is loaded every stored memory
\* whose unlock_date is not after now is unlocked and, the filter being
\* "All Unlocked", is in the list.
C28_ScanBeforeEachLoad ==
    [][ last'.args.loaded =>
            \A m \in MemIdsOf(local') :
                local'.memories[m].unlock_date <= now' =>
                    /\ local'.memories[m].is_unlocked = 1
                    /\ window'.filter_option = "All Unlocked" =>
                           \E i \in 1 .. Len(unlocked_memory_list') :
                               unlocked_memory_list'[i] = m ]_vars

\* C29: after a successful merge every inserted memory's category is null or
\* the id of a category of the local store whose name is the name that
\* category id had in the imported store, also when an imported category
\* with a new name has the id of a local category of another name.
C29_MergeKeepsCategoryIdentity ==
    [][ (last'.op = "import_database" /\ last'.args.merge /\ last'.ok) =>
            \A m \in MemIdsOf(local') \ MemIdsOf(local) :
                \/ local'.memories[m].category = NULL
                \/ \E c \in local'.categories, d \in ext.categories :
                      /\ c.id = local'.memories[m].category
                      /\ d.id = ext.memories[m].category
                      /\ c.name = d.name ]_vars

\* the pair a sort label names
NamedSort(sort_option) ==
    [ sort_field |-> IF sort_option.by = "Unlock Date" THEN "unlock_date"
                     ELSE IF sort_option.by = "Creation Date" THEN "created_date"
                     ELSE "importance",
      sort_order |-> IF sort_option.which \in {"Soonest", "Oldest", "Lowest"}
                     THEN "ASC" ELSE "DESC" ]

\* C30: each of the six vault sort options yields the sort field and order
\* its label names (Soonest, Oldest, Lowest ascending; Latest, Newest,
\* Highest descending), the vault lists the locked memories in that order,
\* and the six options give six distinct pairs.
C30_SortOptionsAsLabelled ==
    [][ last'.op = "get_filtered_locked_memories" =>
            LET named == NamedSort(last'.args.sort_option)
                result == last'.result
            IN  /\ last'.args.sort_field = named.sort_field
                /\ last'.args.sort_order = named.sort_order
                /\ \A i, j \in 1 .. Len(result) :
                       i < j =>
                         IF named.sort_order = "ASC"
                         THEN result[i][named.sort_field] <= result[j][named.sort_field]
                         ELSE result[i][named.sort_field] >= result[j][named.sort_field]
                /\ Cardinality({ SortParameters(o) : o \in SortOptions })
                       = Cardinality(SortOptions) ]_vars

====
